---- MODULE Spec2Model ----
(***************************************************************************)
(* Model of the EG-Overlay Sphinx extension (docs/_ext/eg_overlay):        *)
(*   - domain.py : the overlay domain (scope directives, entity           *)
(*     directives, the objects registry, index generation, resolve_xref)  *)
(*   - parsers.py: CommentParser.parse and its block patterns             *)
(*   - __init__.py: setup() and the parallel_read_safe declaration        *)
(*                                                                         *)
(* A Python str is a sequence of one-character strings, so that split,    *)
(* join, f-string formatting, str.lower and the ordering used by sorted() *)
(* are computed and not assumed.                                           *)
(***************************************************************************)
EXTENDS Integers, Sequences, FiniteSets, TLC

VARIABLES
    objects,        \* env.domaindata['overlay']['objects'] (domain.py:227-229)
    ref_context,    \* env.ref_context, a dict: key -> str
    docname,        \* env.docname, the document being read
    phase,          \* the build's phase: "read" (directives run), then "write"
    ret,            \* what the last operation returned
    lastScopeArg,   \* history: the argument of the last module / database
                    \* directive of the current pass (<<>> when there was none)
    declared,       \* history: the entity declarations made, in order, each
                    \* with the scope it was made under (<<>>: none)
    scen,           \* history: how much of the section 8 scenario the run is
    inputstring,    \* CommentParser.parse: the text being parsed
    rstlines,       \* CommentParser.parse: the local list rstlines
    parsed,         \* the strings handed to RSTParser.parse, in order
    pc,             \* CommentParser.parse: position
    workerObjects,  \* parallel read: each worker's copy of the registry
    workerDoc,      \* parallel read: the document each worker reads
    mergeError      \* parallel read: the exception the merge raised, if any

vars == <<objects, ref_context, docname, phase, ret, lastScopeArg, declared, scen,
          inputstring, rstlines, parsed, pc,
          workerObjects, workerDoc, mergeError>>

registryVars == <<objects, ref_context, docname, phase, ret, lastScopeArg,
                  declared, scen>>
parserVars   == <<inputstring, rstlines, parsed, pc>>
parallelVars == <<workerObjects, workerDoc, mergeError>>

-----------------------------------------------------------------------------
(* Bounds *)

\* The registry holds at most this many objects.
MaxObjs == 2

\* A source text has at most this many lines.
MaxLines == 6

\* A worker of a parallel read registers at most this many objects.
MaxWorkerObjs == 2

-----------------------------------------------------------------------------
(* Python strings *)

\* ord(c) for the characters the model uses.
CodePoint(c) ==
    CASE c = "-" -> 45  [] c = "." -> 46  [] c = "N" -> 78
      [] c = "a" -> 97  [] c = "b" -> 98  [] c = "d" -> 100
      [] c = "e" -> 101 [] c = "g" -> 103 [] c = "i" -> 105
      [] c = "l" -> 108 [] c = "m" -> 109 [] c = "n" -> 110
      [] c = "o" -> 111 [] c = "r" -> 114 [] c = "s" -> 115
      [] c = "t" -> 116 [] c = "u" -> 117 [] c = "v" -> 118
      [] c = "y" -> 121

\* str.lower() of one character.
Lower(c) == IF c = "N" THEN "n" ELSE c

\* Python's order on str: by code point, a proper prefix first.
RECURSIVE StrLess(_, _)
StrLess(a, b) ==
    IF b = <<>> THEN FALSE
    ELSE IF a = <<>> THEN TRUE
    ELSE IF CodePoint(Head(a)) < CodePoint(Head(b)) THEN TRUE
    ELSE IF CodePoint(Head(a)) > CodePoint(Head(b)) THEN FALSE
    ELSE StrLess(Tail(a), Tail(b))

StrLeq(a, b) == a = b \/ StrLess(a, b)

\* s.split(sep) for a one-character sep: the list of segments.
RECURSIVE SplitFrom(_, _, _)
SplitFrom(s, sep, cur) ==
    IF s = <<>> THEN <<cur>>
    ELSE IF Head(s) = sep THEN <<cur>> \o SplitFrom(Tail(s), sep, <<>>)
    ELSE SplitFrom(Tail(s), sep, Append(cur, Head(s)))

Split(s, sep) == SplitFrom(s, sep, <<>>)

\* sep.join(parts)
RECURSIVE Join(_, _)
Join(sep, parts) ==
    IF parts = <<>> THEN <<>>
    ELSE IF Len(parts) = 1 THEN parts[1]
    ELSE parts[1] \o <<sep>> \o Join(sep, Tail(parts))

\* Python values that may be None: <<"NoneType", <<>>>> or <<"str", s>>.
PyNone == <<"NoneType", <<>>>>
PyStr(s) == <<"str", s>>

\* The text an f-string puts for a value: str(None) is 'None'.
Format(v) == IF v[1] = "NoneType" THEN <<"N", "o", "n", "e">> ELSE v[2]

\* dict.get(key, default) on a dict modelled as a function.
DictGet(d, key, default) == IF key \in DOMAIN d THEN d[key] ELSE default

\* dict.pop(key, None): the dict without the key; no error when it is absent.
DictPop(d, key) == [k \in (DOMAIN d) \ {key} |-> d[k]]

\* d[key] = value
DictSet(d, key, value) ==
    [k \in (DOMAIN d) \cup {key} |-> IF k = key THEN value ELSE d[k]]

EmptyDict == [k \in {} |-> PyNone]

-----------------------------------------------------------------------------
(* Literals of domain.py *)

s_net     == <<"n", "e", "t">>
s_timeout == <<"t", "i", "m", "e", "o", "u", "t">>
s_Net     == <<"N", "e", "t">>
s_t_net   == <<"t", ".", "n", "e", "t">>
s_None    == <<"N", "o", "n", "e">>
s_none    == <<"n", "o", "n", "e">>

s_overlay    == <<"o", "v", "e", "r", "l", "a", "y">>
s_modsetting == <<"m", "o", "d", "s", "e", "t", "t", "i", "n", "g">>
s_dbtable    == <<"d", "b", "t", "a", "b", "l", "e">>
s_event      == <<"e", "v", "e", "n", "t">>

\* The keys of env.ref_context the two scope directives use.
KeyModule   == "overlay:module"
KeyDatabase == "overlay:database"

-----------------------------------------------------------------------------
(* Inputs *)

\* Arguments of the module and of the database directive ('None' is the
\* sentinel).
ModuleArgs   == {s_net, s_None}
DatabaseArgs == {s_t_net, s_None}

\* Signatures of the entity directives.
Sigs == {s_timeout, s_Net}

\* self.options of an entity directive: empty, or the explicit override.
OptionSets(key) == {EmptyDict, [k \in {key} |-> PyStr(s_net)]}

\* The documents of the build, in the order the host reads them.
DocSeq == <<"doc1", "doc2">>
Docs == {DocSeq[i] : i \in 1..Len(DocSeq)}

\* Targets of cross-references.
Targets(typ) ==
    IF typ = "dbtable"
    THEN {s_timeout}
         \cup {d \o <<".">> \o s_timeout : d \in {s_net, s_t_net, s_None, s_none}}
    ELSE {<<>>} \cup Sigs

RoleTypes == {"event", "dbtable", "modsetting"}

-----------------------------------------------------------------------------
(* domain.py: scope directives *)

\* ModuleDirective.run / DBDirective.run on env.ref_context: the sentinel
\* 'None' pops the key (no error when it is absent), any other name sets it.
ScopeRunNoClear(ctx, key, arg) == DictSet(ctx, key, PyStr(arg))
ScopeRun(ctx, key, arg) ==
    IF arg = s_None THEN DictPop(ctx, key) ELSE DictSet(ctx, key, PyStr(arg))

ModuleDirective_run(ctx, arg) == ScopeRun(ctx, KeyModule, arg)
DBDirective_run(ctx, arg)     == ScopeRun(ctx, KeyDatabase, arg)

-----------------------------------------------------------------------------
(* domain.py: entity directives *)

\* A registry entry is the tuple the code appends:
\*   (name, dispname, typ, docname, anchor, prio)
ObjName(o)    == o[1]
ObjSig(o)     == o[2]
ObjTyp(o)     == o[3]
ObjDocname(o) == o[4]
ObjAnchor(o)  == o[5]
ObjPrio(o)    == o[6]

\* ModuleSettingDirective.handle_signature: the attributes it sets on signode.
\* self.env.ref_context.get(key) is None when the key is absent, and that None
\* is stored under 'modname'.
ScopeOf(options, optkey, ctx, ctxkey) ==
    DictGet(options, optkey, DictGet(ctx, ctxkey, PyNone))

ModuleSetting_handle_signature(sig, options, ctx) ==
    [k \in {"settingname", "modname"} |->
        IF k = "settingname" THEN PyStr(sig)
        ELSE ScopeOf(options, "module", ctx, KeyModule)]

\* ModuleSettingDirective.add_target_and_index: the tuple appended to objs.
ModuleSetting_entry(sig, signode, doc) ==
    LET modname == DictGet(signode, "modname", PyStr(s_none))
        anchor  == s_overlay \o <<"-">> \o s_modsetting \o <<"-">>
                   \o Format(modname) \o <<"-">> \o sig
        name    == s_overlay \o <<".">> \o s_modsetting \o <<".">>
                   \o Format(modname) \o <<".">> \o sig
    IN  <<name, sig, "modsetting", doc, anchor, 0>>

\* DBTableDirective.handle_signature
DBTable_handle_signature(sig, options, ctx) ==
    [k \in {"tablename", "dbname"} |->
        IF k = "tablename" THEN PyStr(sig)
        ELSE ScopeOf(options, "database", ctx, KeyDatabase)]

\* DBTableDirective.add_target_and_index
DBTable_entry(sig, signode, doc) ==
    LET dbname == DictGet(signode, "dbname", PyStr(s_none))
        anchor == s_overlay \o <<"-">> \o s_dbtable \o <<"-">>
                  \o Format(dbname) \o <<"-">> \o sig
        name   == s_overlay \o <<".">> \o s_dbtable \o <<".">>
                  \o Format(dbname) \o <<".">> \o sig
    IN  <<name, sig, "dbtable", doc, anchor, 0>>

\* EventDirective.add_target_and_index
Event_entry(sig, doc) ==
    LET anchor == s_overlay \o <<"-">> \o s_event \o <<"-">> \o sig
        name   == s_overlay \o <<".">> \o s_event \o <<".">> \o sig
    IN  <<name, sig, "event", doc, anchor, 0>>

\* objs.append(entry)
RegisterAtFront(objs, entry) == <<entry>> \o objs
Register(objs, entry) == Append(objs, entry)

-----------------------------------------------------------------------------
(* domain.py: OverlayDomain.resolve_xref *)

\* a[-k] of a Python list
FromEnd(a, k) == a[Len(a) + 1 - k]

\* The condition of the list comprehension, for one registry entry.
XrefMatchesAnyKind(o, typ, target) ==
    IF typ = "dbtable"
    THEN LET targparts == Split(target, ".")
         IN  /\ FromEnd(Split(ObjName(o), "."), 2)
                  = Join(".", SubSeq(targparts, 1, Len(targparts) - 1))
             /\ FromEnd(Split(ObjName(o), "."), 1) = FromEnd(targparts, 1)
    ELSE ObjSig(o) = target
XrefMatches(o, typ, target) ==
    IF typ = "dbtable"
    THEN LET targparts == Split(target, ".")
             targname  == FromEnd(targparts, 1)
             dbname    == Join(".", SubSeq(targparts, 1, Len(targparts) - 1))
         IN  /\ ObjTyp(o) = typ
             /\ FromEnd(Split(ObjName(o), "."), 2) = dbname
             /\ FromEnd(Split(ObjName(o), "."), 1) = targname
    ELSE ObjSig(o) = target /\ ObjTyp(o) = typ

\* matches = [(docname, anchor) for ... in self.get_objects() if ...]
RECURSIVE XrefMatchList(_, _, _)
XrefMatchList(objs, typ, target) ==
    IF objs = <<>> THEN <<>>
    ELSE (IF XrefMatches(Head(objs), typ, target)
          THEN << <<ObjDocname(Head(objs)), ObjAnchor(Head(objs))>> >>
          ELSE <<>>)
         \o XrefMatchList(Tail(objs), typ, target)

\* What resolve_xref returns: make_refnode(..., todocname, targ, ...) is
\* modelled by the pair (todocname, targ) it links to; None is <<>>.
Unresolved == <<>>

resolve_xref_last(objs, typ, target) ==
    LET matches == XrefMatchList(objs, typ, target)
    IN  IF Len(matches) > 0 THEN <<matches[Len(matches)]>> ELSE Unresolved
resolve_xref(objs, typ, target) ==
    LET matches == XrefMatchList(objs, typ, target)
    IN  IF Len(matches) > 0 THEN <<matches[1]>> ELSE Unresolved


-----------------------------------------------------------------------------
(* domain.py: the index generators *)

\* items = ((name, dispname, typ, docname, anchor) for ... if typ == kind)
RECURSIVE IndexItems(_, _)
IndexItems(objs, kind) ==
    IF objs = <<>> THEN <<>>
    ELSE (IF ObjTyp(Head(objs)) = kind
          THEN << <<ObjName(Head(objs)), ObjSig(Head(objs)), ObjTyp(Head(objs)),
                    ObjDocname(Head(objs)), ObjAnchor(Head(objs))>> >>
          ELSE <<>>)
         \o IndexItems(Tail(objs), kind)

\* sorted(items, key=lambda item: item[0]): a stable sort on the name.
RECURSIVE InsertByName(_, _)
InsertByName(sorted, item) ==
    IF sorted = <<>> THEN <<item>>
    ELSE IF StrLess(item[1], Head(sorted)[1])
         THEN <<item>> \o sorted
         ELSE <<Head(sorted)>> \o InsertByName(Tail(sorted), item)

RECURSIVE SortFrom(_, _)
SortFrom(items, acc) ==
    IF items = <<>> THEN acc
    ELSE SortFrom(Tail(items), InsertByName(acc, Head(items)))

Unsorted(items) == items
SortedByName(items) == SortFrom(items, <<>>)

\* The tuple appended to a bucket. The sixth field is '' except for the
\* dbtable index, where it is name.split('.')[-2].
IndexEntry(item, kind) ==
    <<item[2], 0, item[4], item[5], item[4],
      IF kind = "dbtable" THEN FromEnd(Split(item[1], "."), 2) ELSE <<>>,
      item[3]>>

\* The bucket key: dispname[0].lower()
BucketKey(dispname) == Lower(dispname[1])

\* The loop over items: content.setdefault(key, []).append(entry)
RECURSIVE BuildContent(_, _, _)
BuildContent(items, kind, content) ==
    IF items = <<>> THEN content
    ELSE LET item == Head(items)
             key  == BucketKey(item[2])
             lis  == DictGet(content, key, <<>>)
         IN  BuildContent(Tail(items), kind,
                          DictSet(content, key, Append(lis, IndexEntry(item, kind))))

\* sorted(content.items()): the keys are distinct, so the order is the keys'.
RECURSIVE SortedItems(_)
SortedItems(content) ==
    IF DOMAIN content = {} THEN <<>>
    ELSE LET k == CHOOSE x \in DOMAIN content :
                    \A y \in DOMAIN content : CodePoint(x) <= CodePoint(y)
         IN  << <<k, content[k]>> >> \o SortedItems(DictPop(content, k))

\* Index.generate of the three index classes: (re, True)
Index_generate(objs, kind) ==
    LET items   == SortedByName(IndexItems(objs, kind))
        content == BuildContent(items, kind, [k \in {} |-> <<>>])
    IN  <<SortedItems(content), TRUE>>

ModuleSettingIndex_generate(objs) == Index_generate(objs, "modsetting")
DBTableIndex_generate(objs)       == Index_generate(objs, "dbtable")
EventIndex_generate(objs)         == Index_generate(objs, "event")

\* OverlayDomain.indices, by the kind each one lists.
IndexOf(objs, kind) ==
    CASE kind = "modsetting" -> ModuleSettingIndex_generate(objs)
      [] kind = "dbtable"    -> DBTableIndex_generate(objs)
      [] kind = "event"      -> EventIndex_generate(objs)

-----------------------------------------------------------------------------
(* The registry: state and operations *)

\* The section 8 scenario, as (directive, argument) pairs.
Scenario == << <<"module", s_net>>, <<"modsetting", s_timeout>>,
               <<"module", s_None>>, <<"modsetting", s_timeout>> >>

\* scen counts the scenario's directives while the run is exactly a prefix of
\* it, and is -1 once the run has left it.
ScenStep(op, arg, plain) ==
    IF scen >= 0 /\ scen < Len(Scenario) /\ plain
       /\ Scenario[scen + 1] = <<op, arg>>
    THEN scen + 1 ELSE -1

NoReturn == [op |-> "directive", value |-> <<>>]

\* The scope a declaration is made under, from what the document said: the
\* explicit option if there is one, else the argument of the last scope
\* directive of the pass unless that was the sentinel; <<>> when there is none.
DeclaredScope(options, optkey, ctxkey) ==
    IF optkey \in DOMAIN options THEN <<options[optkey][2]>>
    ELSE IF lastScopeArg[ctxkey] = <<s_None>> THEN <<>>
    ELSE lastScopeArg[ctxkey]

Declaration(typ, scope, sig) ==
    [typ |-> typ, scope |-> scope, sig |-> sig, doc |-> docname]

NoScopeArgs == [k \in {KeyModule, KeyDatabase} |-> <<>>]

InitRegistry ==
    /\ objects = <<>>
    /\ ref_context = EmptyDict
    /\ docname = DocSeq[1]
    /\ phase = "read"
    /\ ret = NoReturn
    /\ lastScopeArg = NoScopeArgs
    /\ declared = <<>>
    /\ scen = 0

\* The host ends the pass over the current document and begins the next one:
\* env.docname is the new document and env.ref_context is empty.
BeginNextDocument ==
    /\ phase = "read"
    /\ \E i \in 1..(Len(DocSeq) - 1) : docname = DocSeq[i] /\ docname' = DocSeq[i + 1]
    /\ ref_context' = EmptyDict
    /\ lastScopeArg' = NoScopeArgs
    /\ ret' = NoReturn
    /\ scen' = -1
    /\ UNCHANGED <<objects, phase, declared>>

\* The host ends the last pass: all documents are read, and the registry is
\* from now on only read, to resolve references and to build the indices.
FinishReading ==
    /\ phase = "read"
    /\ docname = DocSeq[Len(DocSeq)]
    /\ phase' = "write"
    /\ ref_context' = EmptyDict
    /\ lastScopeArg' = NoScopeArgs
    /\ ret' = NoReturn
    /\ UNCHANGED <<objects, docname, declared, scen>>

\* .. overlay:module:: arg
Module(arg) ==
    /\ phase = "read"
    /\ ref_context' = ModuleDirective_run(ref_context, arg)
    /\ lastScopeArg' = [lastScopeArg EXCEPT ![KeyModule] = <<arg>>]
    /\ ret' = NoReturn
    /\ scen' = ScenStep("module", arg, TRUE)
    /\ UNCHANGED <<objects, docname, phase, declared>>

\* .. overlay:database:: arg
Database(arg) ==
    /\ phase = "read"
    /\ ref_context' = DBDirective_run(ref_context, arg)
    /\ lastScopeArg' = [lastScopeArg EXCEPT ![KeyDatabase] = <<arg>>]
    /\ ret' = NoReturn
    /\ scen' = -1
    /\ UNCHANGED <<objects, docname, phase, declared>>

\* .. overlay:modsetting:: sig   (options: self.options)
ModSetting(sig, options) ==
    /\ phase = "read"
    /\ Len(objects) < MaxObjs
    /\ LET signode == ModuleSetting_handle_signature(sig, options, ref_context)
       IN  objects' = Register(objects, ModuleSetting_entry(sig, signode, docname))
    /\ ret' = NoReturn
    /\ scen' = ScenStep("modsetting", sig, options = EmptyDict)
    /\ declared' = Append(declared,
           Declaration("modsetting", DeclaredScope(options, "module", KeyModule), sig))
    /\ UNCHANGED <<ref_context, docname, phase, lastScopeArg>>

\* .. overlay:dbtable:: sig   (options: self.options)
DBTable(sig, options) ==
    /\ phase = "read"
    /\ Len(objects) < MaxObjs
    /\ LET signode == DBTable_handle_signature(sig, options, ref_context)
       IN  objects' = Register(objects, DBTable_entry(sig, signode, docname))
    /\ ret' = NoReturn
    /\ scen' = -1
    /\ declared' = Append(declared,
           Declaration("dbtable", DeclaredScope(options, "database", KeyDatabase), sig))
    /\ UNCHANGED <<ref_context, docname, phase, lastScopeArg>>

\* .. overlay:event:: sig
Event(sig) ==
    /\ phase = "read"
    /\ Len(objects) < MaxObjs
    /\ objects' = Register(objects, Event_entry(sig, docname))
    /\ ret' = NoReturn
    /\ scen' = -1
    /\ declared' = Append(declared, Declaration("event", <<>>, sig))
    /\ UNCHANGED <<ref_context, docname, phase, lastScopeArg>>

\* :overlay:<typ>:`target`
Resolve(typ, target) ==
    /\ phase = "write"
    /\ ret' = [op |-> "resolve_xref", value |-> resolve_xref(objects, typ, target)]
    /\ UNCHANGED <<objects, ref_context, docname, phase, lastScopeArg, declared, scen>>

\* The host builds the index of one kind.
Generate(kind) ==
    /\ phase = "write"
    /\ ret' = [op |-> "generate", value |-> IndexOf(objects, kind)]
    /\ UNCHANGED <<objects, ref_context, docname, phase, lastScopeArg, declared, scen>>


-----------------------------------------------------------------------------
(* parsers.py: the block patterns and CommentParser.parse *)

\* A source text is a str whose characters are: NL, the newline; "O", the
\* text of a pattern's opening marker ('--[[ RST' or '/*** RST'); "C", the
\* text of its closing marker (']]--' or '*/'); and "x", any other character
\* except a carriage return.
NL == "\n"

\* '^' under re.M: at the start of the string or just after a newline.
AtLineStart(text, p) == p = 1 \/ text[p - 1] = NL

\* '$' under re.M: at the end of the string or just before a newline.
AtLineEnd(text, p) == p = Len(text) + 1 \/ text[p] = NL

\* The tail of the pattern, '\n^<close>$', at position e.
ClosesAt(text, e) ==
    /\ e + 1 <= Len(text)
    /\ text[e] = NL
    /\ text[e + 1] = "C"
    /\ AtLineEnd(text, e + 2)

\* The head of the pattern, '^<open>\n', at position p.
OpensAt(text, p) ==
    /\ p + 1 <= Len(text)
    /\ AtLineStart(text, p)
    /\ text[p] = "O"
    /\ text[p + 1] = NL

\* block_pattern.match at position p: '(?P<content>.*?)' under re.S takes the
\* fewest characters, so the match ends at the first position that closes.
\* The result is <<>> or <<[start, cstart, cend, stop]>>: the match is
\* text[start..stop-1] and its content group text[cstart..cend-1].
MatchAt(text, p) ==
    IF ~OpensAt(text, p) THEN <<>>
    ELSE LET ends == {e \in (p + 2)..Len(text) : ClosesAt(text, e)}
         IN  IF ends = {} THEN <<>>
             ELSE LET e == CHOOSE x \in ends : \A y \in ends : x <= y
                  IN  <<[start |-> p, cstart |-> p + 2, cend |-> e, stop |-> e + 2]>>

\* The scan of findall / finditer: leftmost match from p on, then on from its
\* end, so matches do not overlap.
RECURSIVE FindIterFrom(_, _)
FindIterFrom(text, p) ==
    IF p > Len(text) THEN <<>>
    ELSE LET m == MatchAt(text, p)
         IN  IF m = <<>> THEN FindIterFrom(text, p + 1)
             ELSE m \o FindIterFrom(text, m[1].stop)

FindIter(text) == FindIterFrom(text, 1)

\* block_pattern.findall(inputstring): with one group, the groups' strings.
Findall(text) ==
    LET ms == FindIter(text)
    IN  [i \in 1..Len(ms) |-> SubSeq(text, ms[i].cstart, ms[i].cend - 1)]

\* str.splitlines(): the lines, without an empty last one after a final
\* line end.
RECURSIVE SplitlinesFrom(_, _)
SplitlinesFrom(s, cur) ==
    IF s = <<>> THEN (IF cur = <<>> THEN <<>> ELSE <<cur>>)
    ELSE IF Head(s) = NL THEN <<cur>> \o SplitlinesFrom(Tail(s), <<>>)
    ELSE SplitlinesFrom(Tail(s), Append(cur, Head(s)))

Splitlines(s) == SplitlinesFrom(s, <<>>)

\* The loop of CommentParser.parse over the blocks: rstlines.
RECURSIVE CollectNoSeparator(_)
CollectNoSeparator(blocks) ==
    IF blocks = <<>> THEN <<>>
    ELSE Splitlines(Head(blocks)) \o CollectNoSeparator(Tail(blocks))
RECURSIVE Collect(_)
Collect(blocks) ==
    IF blocks = <<>> THEN <<>>
    ELSE Splitlines(Head(blocks)) \o << <<>> >> \o Collect(Tail(blocks))

\* The end of CommentParser.parse: the strings handed to RSTParser.parse.
HandOverAlways(lines) == << Join(NL, lines) \o <<NL>> >>
HandOver(lines) ==
    IF Len(lines) > 0 THEN << Join(NL, lines) \o <<NL>> >> ELSE <<>>

\* The lines a source text may hold.
LineSet == { <<"O">>, <<"C">>, <<>>, <<"x">>, <<"O", "x">> }

RECURSIVE LineSeqs(_)
LineSeqs(n) ==
    IF n = 0 THEN { <<>> }
    ELSE LET shorter == LineSeqs(n - 1)
         IN  shorter \cup {Append(ls, l) : ls \in {x \in shorter : Len(x) = n - 1},
                                           l \in LineSet}

Texts == { Join(NL, ls) : ls \in LineSeqs(MaxLines) }

InitParser ==
    /\ inputstring = <<>>
    /\ rstlines = <<>>
    /\ parsed = <<>>
    /\ pc = "idle"

\* The host reads a source file and calls the parser on its text.
ReadFile(text) ==
    /\ pc = "idle"
    /\ inputstring' = text
    /\ pc' = "parse"
    /\ UNCHANGED <<rstlines, parsed>>

\* CommentParser.parse(inputstring, document)
Parse ==
    /\ pc = "parse"
    /\ rstlines' = Collect(Findall(inputstring))
    /\ parsed' = parsed \o HandOver(rstlines')
    /\ pc' = "done"
    /\ UNCHANGED inputstring

-----------------------------------------------------------------------------
(* __init__.py: setup() declares parallel_read_safe, so the host may read   *)
(* documents in worker processes, each on its own copy of the environment,  *)
(* and merge each worker's domaindata into the main process afterwards.     *)

Workers == {"w1", "w2"}

\* setup()'s extension metadata.
parallel_read_safe == TRUE

\* OverlayDomain defines no merge_domaindata: the call goes to the one it
\* inherits from sphinx.domains.Domain, which raises NotImplementedError.
\* The result is the registry afterwards and the exception raised.
OverlayDomain_merge_domaindata(objs, docnames, otherdata) ==
    [objects |-> objs, raised |-> "NotImplementedError"]

\* The host forks one worker per document; a worker starts from a copy of the
\* main process's registry.
InitParallel ==
    /\ workerObjects = [w \in Workers |-> <<>>]
    /\ workerDoc \in {f \in [Workers -> Docs] : f["w1"] # f["w2"]}
    /\ mergeError = [w \in Workers |-> "unmerged"]

\* Worker w reads an entity directive of its document.
WorkerDeclare(w, entry) ==
    /\ parallel_read_safe
    /\ mergeError[w] = "unmerged"
    /\ Len(workerObjects[w]) < MaxWorkerObjs
    /\ workerObjects' = [workerObjects EXCEPT ![w] = Register(@, entry)]
    /\ UNCHANGED <<workerDoc, mergeError>>

WorkerEntries(w) ==
    {Event_entry(sig, workerDoc[w]) : sig \in Sigs}
    \cup {ModuleSetting_entry(sig,
              ModuleSetting_handle_signature(sig, EmptyDict, EmptyDict),
              workerDoc[w]) : sig \in Sigs}
    \cup {DBTable_entry(sig,
              DBTable_handle_signature(sig, EmptyDict, EmptyDict),
              workerDoc[w]) : sig \in Sigs}

\* The main process merges worker w's result: env.merge_info_from calls
\* merge_domaindata of the domain with the worker's domaindata.
Merge(w) ==
    /\ parallel_read_safe
    /\ mergeError[w] = "unmerged"
    /\ LET r == OverlayDomain_merge_domaindata(objects, {workerDoc[w]},
                                                workerObjects[w])
       IN  /\ objects' = r.objects
           /\ mergeError' = [mergeError EXCEPT ![w] = r.raised]
    /\ UNCHANGED <<workerObjects, workerDoc>>

-----------------------------------------------------------------------------
(* Specifications *)

\* No parallel read is under way.
NoParallel ==
    /\ workerObjects = [w \in Workers |-> <<>>]
    /\ workerDoc = [w \in Workers |-> DocSeq[1]]
    /\ mergeError = [w \in Workers |-> "unmerged"]

\* The registry while the documents are read one after the other, and the
\* reads of it afterwards.
Init == InitRegistry /\ InitParser /\ NoParallel

Next ==
    \/ BeginNextDocument /\ UNCHANGED <<parserVars, parallelVars>>
    \/ FinishReading /\ UNCHANGED <<parserVars, parallelVars>>
    \/ \E a \in ModuleArgs : Module(a) /\ UNCHANGED <<parserVars, parallelVars>>
    \/ \E a \in DatabaseArgs : Database(a) /\ UNCHANGED <<parserVars, parallelVars>>
    \/ \E sig \in Sigs, o \in OptionSets("module") :
          ModSetting(sig, o) /\ UNCHANGED <<parserVars, parallelVars>>
    \/ \E sig \in Sigs, o \in OptionSets("database") :
          DBTable(sig, o) /\ UNCHANGED <<parserVars, parallelVars>>
    \/ \E sig \in Sigs : Event(sig) /\ UNCHANGED <<parserVars, parallelVars>>
    \/ \E typ \in RoleTypes : \E t \in Targets(typ) :
          Resolve(typ, t) /\ UNCHANGED <<parserVars, parallelVars>>
    \/ \E kind \in RoleTypes : Generate(kind) /\ UNCHANGED <<parserVars, parallelVars>>

Spec == Init /\ [][Next]_vars

\* The block extractor on every bounded source text.
InitParse == InitParser /\ InitRegistry /\ NoParallel

NextParse ==
    \/ /\ pc = "idle"
       /\ \E text \in Texts : ReadFile(text) /\ UNCHANGED <<registryVars, parallelVars>>
    \/ Parse /\ UNCHANGED <<registryVars, parallelVars>>

SpecParse == InitParse /\ [][NextParse]_vars

\* A parallel read of two documents and the merge of the workers' results.
InitParallelRead == InitParallel /\ InitRegistry /\ InitParser

NextParallel ==
    \/ \E w \in Workers : \E e \in WorkerEntries(w) :
          WorkerDeclare(w, e) /\ UNCHANGED <<registryVars, parserVars>>
    \/ \E w \in Workers :
          Merge(w) /\ UNCHANGED <<ref_context, docname, phase, ret, lastScopeArg,
                                  declared, scen, parserVars>>

SpecParallel == InitParallelRead /\ [][NextParallel]_vars

-----------------------------------------------------------------------------
(* What the claims say, in the claims' own terms *)

KindText(typ) ==
    CASE typ = "modsetting" -> s_modsetting
      [] typ = "dbtable"    -> s_dbtable
      [] typ = "event"      -> s_event

\* overlay.<kind>.<scope>.<sig> and overlay-<kind>-<scope>-<sig>
QualifiedName(typ, scope, sig) ==
    s_overlay \o <<".">> \o KindText(typ) \o <<".">> \o scope \o <<".">> \o sig
AnchorName(typ, scope, sig) ==
    s_overlay \o <<"-">> \o KindText(typ) \o <<"-">> \o scope \o <<"-">> \o sig

Scoped == {"modsetting", "dbtable"}

\* The (owning document, anchor) of the i-th registered object, as resolve
\* returns it.
LinkTo(i) == << <<ObjDocname(objects[i]), ObjAnchor(objects[i])>> >>

Min(S) == CHOOSE x \in S : \A y \in S : x <= y

\* Every declaration made so far put one entry in the registry, at its place.
AllRegistered ==
    /\ Len(objects) = Len(declared)
    /\ \A i \in 1..Len(declared) :
          /\ i \in DOMAIN objects
          /\ ObjTyp(objects[i]) = declared[i].typ
          /\ ObjSig(objects[i]) = declared[i].sig
          /\ ObjDocname(objects[i]) = declared[i].doc
          /\ ObjPrio(objects[i]) = 0

\* C1: a modsetting (dbtable) declared with no explicit module (database) and
\* no ambient one is registered, and its scope component is the literal
\* "none": overlay.modsetting.none.<sig> / overlay-modsetting-none-<sig>
\* (overlay.dbtable.none.<sig> / overlay-dbtable-none-<sig>).
C1_NoneFallback ==
    \A i \in 1..Len(declared) :
        (declared[i].typ \in Scoped /\ declared[i].scope = <<>>) =>
            /\ i \in DOMAIN objects
            /\ ObjName(objects[i])
                 = QualifiedName(declared[i].typ, s_none, declared[i].sig)
            /\ ObjAnchor(objects[i])
                 = AnchorName(declared[i].typ, s_none, declared[i].sig)

\* C2: resolve('dbtable', 'D.T') returns the (document, anchor) of an object
\* registered as table T under database D if there is one, and unresolved
\* otherwise.
C2_ResolvesByDatabase ==
    phase = "write" =>
    \A D \in {s_net, s_t_net}, T \in Sigs :
        LET cands == {i \in 1..Len(declared) :
                         /\ declared[i].typ = "dbtable"
                         /\ declared[i].scope = <<D>>
                         /\ declared[i].sig = T}
            r     == resolve_xref(objects, "dbtable", D \o <<".">> \o T)
        IN  IF cands = {} THEN r = Unresolved
            ELSE \E i \in cands : r = LinkTo(i)

AllTargets == UNION {Targets(typ) : typ \in RoleTypes}

\* C3: for the kinds event and modsetting, resolve(kind, target) returns the
\* (document, anchor) of the earliest-registered object of that kind whose
\* bare signature is target, whatever was registered later under other
\* scopes; it returns unresolved when there is none, the empty target
\* included, and never an object of another kind.
C3_FirstMatchBySignature ==
    phase = "write" =>
    \A typ \in {"event", "modsetting"}, target \in AllTargets :
        LET idx == {i \in 1..Len(objects) :
                       ObjTyp(objects[i]) = typ /\ ObjSig(objects[i]) = target}
            r   == resolve_xref(objects, typ, target)
        IN  /\ idx = {} => r = Unresolved
            /\ idx # {} => r = LinkTo(Min(idx))
            /\ target = <<>> => r = Unresolved

\* C3's case: two module settings with one signature under different scopes
\* are registered, and resolve returned the first one's link.
C3_Witness ==
    /\ ret.op = "resolve_xref"
    /\ Len(objects) = 2
    /\ ObjTyp(objects[1]) = "modsetting" /\ ObjTyp(objects[2]) = "modsetting"
    /\ ObjSig(objects[1]) = ObjSig(objects[2])
    /\ ObjAnchor(objects[1]) # ObjAnchor(objects[2])
    /\ ret.value = LinkTo(1)

\* The target a dbtable reference gives for a qualified name: the name
\* without its 'overlay.dbtable.' prefix.
TargetOfName(name) ==
    LET parts == Split(name, ".") IN Join(".", SubSeq(parts, 3, Len(parts)))

Duplicates ==
    {p \in (1..Len(objects)) \X (1..Len(objects)) :
        /\ p[1] < p[2]
        /\ ObjTyp(objects[p[1]]) = ObjTyp(objects[p[2]])
        /\ ObjName(objects[p[1]]) = ObjName(objects[p[2]])}

\* No registered scope or signature holds a dot.
PlainNames ==
    \A k \in 1..Len(objects) : Len(Split(ObjName(objects[k]), ".")) <= 4

Listings(S) ==
    {f \in [1..Cardinality(S) -> S] :
        \A a, b \in 1..Cardinality(S) : a # b => f[a] # f[b]}

\* C5: generate(kind) holds one entry per registered object of the kind and
\* none of another kind; each entry is in the bucket of the lowercase first
\* character of its display name; the bucket keys ascend; within a bucket
\* the entries ascend by qualified name; the flag is true.
C5_IndexBuckets ==
    phase = "write" =>
    \A kind \in RoleTypes :
        LET g       == IndexOf(objects, kind)
            re      == g[1]
            ofKind  == {i \in 1..Len(objects) : ObjTyp(objects[i]) = kind}
            keyOf(i) == Lower(ObjSig(objects[i])[1])
            inBucket(b) == {i \in ofKind : keyOf(i) = re[b][1]}
        IN  /\ g[2] = TRUE
            /\ \A a, b \in 1..Len(re) :
                  a < b => CodePoint(re[a][1]) < CodePoint(re[b][1])
            /\ \A i \in ofKind : \E b \in 1..Len(re) : re[b][1] = keyOf(i)
            /\ \A b \in 1..Len(re) :
                  /\ Len(re[b][2]) = Cardinality(inBucket(b))
                  /\ Len(re[b][2]) > 0
                  /\ \E f \in Listings(inBucket(b)) :
                        /\ \A a \in 1..(Len(re[b][2]) - 1) :
                              StrLeq(ObjName(objects[f[a]]), ObjName(objects[f[a + 1]]))
                        /\ \A a \in 1..Len(re[b][2]) :
                              LET e == re[b][2][a]
                                  o == objects[f[a]]
                              IN  /\ e[1] = ObjSig(o)
                                  /\ e[3] = ObjDocname(o)
                                  /\ e[4] = ObjAnchor(o)
                                  /\ e[7] = kind

\* C5's case: an index was generated with a bucket of two entries whose
\* objects were registered in descending order of qualified name.
C5_Witness ==
    /\ ret.op = "generate"
    /\ Len(objects) = 2
    /\ ObjTyp(objects[1]) = ObjTyp(objects[2])
    /\ StrLess(ObjName(objects[2]), ObjName(objects[1]))
    /\ Len(ret.value[1]) = 1
    /\ Len(ret.value[1][1][2]) = 2
    /\ ret.value[1][1][2][1][4] = ObjAnchor(objects[2])

\* C6: module("net"), modsetting("timeout"), module("None"),
\* modsetting("timeout") in one document registers net.timeout and
\* none.timeout, and the modsetting index is one bucket "t" with both,
\* net.timeout before none.timeout.
C6_Scenario ==
    scen = Len(Scenario) =>
        /\ Len(objects) = 2
        /\ ObjName(objects[1]) = QualifiedName("modsetting", s_net, s_timeout)
        /\ ObjName(objects[2]) = QualifiedName("modsetting", s_none, s_timeout)
        /\ LET re == IndexOf(objects, "modsetting")[1]
           IN  /\ Len(re) = 1
               /\ re[1][1] = "t"
               /\ Len(re[1][2]) = 2
               /\ re[1][2][1][4] = AnchorName("modsetting", s_net, s_timeout)
               /\ re[1][2][2][4] = AnchorName("modsetting", s_none, s_timeout)

\* C7: a modsetting (dbtable) is registered under its explicit override if
\* it has one, else under the name of the most recent module (database)
\* directive of the pass unless that carried 'None'; after 'None' the scope
\* is absent (also when it already was), and a declaration then is under no
\* scope that was set before.
C7_ScopeInEffect ==
    /\ AllRegistered
    /\ \A i \in 1..Len(declared) :
          declared[i].typ \in Scoped =>
             IF declared[i].scope # <<>>
             THEN /\ ObjName(objects[i])
                       = QualifiedName(declared[i].typ, declared[i].scope[1],
                                       declared[i].sig)
                  /\ ObjAnchor(objects[i])
                       = AnchorName(declared[i].typ, declared[i].scope[1],
                                    declared[i].sig)
             ELSE \A D \in {s_net, s_t_net} :
                     ObjName(objects[i])
                       # QualifiedName(declared[i].typ, D, declared[i].sig)
    /\ \A key \in {KeyModule, KeyDatabase} :
          IF lastScopeArg[key] \in {<<>>, <<s_None>>}
          THEN key \notin DOMAIN ref_context
          ELSE /\ key \in DOMAIN ref_context
               /\ ref_context[key] = PyStr(lastScopeArg[key][1])

\* C7's case: a setting was declared under module net, the module scope was
\* then cleared with 'None', twice, and a setting declared after that is not
\* under net; a table was declared with an explicit database while another
\* database was current.
C7_Witness ==
    /\ Len(declared) = 2
    /\ lastScopeArg[KeyModule] = <<s_None>>
    /\ KeyModule \notin DOMAIN ref_context
    /\ declared[1].typ = "modsetting" /\ declared[1].scope = <<s_net>>
    /\ declared[2].typ = "modsetting" /\ declared[2].scope = <<>>
    /\ ObjName(objects[2]) # ObjName(objects[1])

C7_WitnessOverride ==
    /\ Len(declared) = 1
    /\ declared[1].typ = "dbtable" /\ declared[1].scope = <<s_net>>
    /\ lastScopeArg[KeyDatabase] = <<s_t_net>>
    /\ phase = "read"

-----------------------------------------------------------------------------
(* What each operation leaves alone *)

\* The scopes other than the one under key are the same before and after.
OtherScopesKept(key) == DictPop(ref_context', key) = DictPop(ref_context, key)

\* The registry after the step is the registry before it and one more record
\* at its end, of priority 0.
OneRecordAppended ==
    /\ Len(objects') = Len(objects) + 1
    /\ SubSeq(objects', 1, Len(objects)) = objects
    /\ ObjPrio(objects'[Len(objects')]) = 0

C12_Step ==
    /\ (\E a \in ModuleArgs : Module(a))
           => OtherScopesKept(KeyModule) /\ objects' = objects
    /\ (\E a \in DatabaseArgs : Database(a))
           => OtherScopesKept(KeyDatabase) /\ objects' = objects
    /\ (\/ \E sig \in Sigs, o \in OptionSets("module") : ModSetting(sig, o)
        \/ \E sig \in Sigs, o \in OptionSets("database") : DBTable(sig, o)
        \/ \E sig \in Sigs : Event(sig))
           => OneRecordAppended /\ ref_context' = ref_context
    \* a step that returns from resolve_xref or from generate
    /\ ret'.op \in {"resolve_xref", "generate"}
           => objects' = objects /\ ref_context' = ref_context
    \* and whatever the step was: the registry only ever grows at its end,
    \* and never in a step that changes a scope
    /\ objects' # objects => OneRecordAppended /\ ref_context' = ref_context

\* C12: a module directive changes only the module scope and a database
\* directive only the database scope, and neither changes the registry; an
\* event, dbtable or modsetting declaration appends exactly one record of
\* priority 0 to the end of the registry and changes no existing record, no
\* order and no scope; resolve and index generation change neither the
\* registry nor the scopes.
C12_FrameEffects == [][C12_Step]_vars

\* C12's case: with both scopes set, two declarations were made one after the
\* other in the same document.
C12_Witness ==
    /\ Len(objects) = 2
    /\ KeyModule \in DOMAIN ref_context
    /\ KeyDatabase \in DOMAIN ref_context
    /\ ObjDocname(objects[1]) = ObjDocname(objects[2])

\* ... and an index was built from a registry of two records.
C12_WitnessRead ==
    /\ phase = "write"
    /\ ret.op = "generate"
    /\ Len(objects) = 2

-----------------------------------------------------------------------------
(* The block extractor, in terms of the source text's lines *)

\* The lines of a text, and the line a position is on.
LinesOf(text) == Split(text, NL)
LineAt(text, p) == 1 + Cardinality({q \in 1..(p - 1) : text[q] = NL})

\* The lines strictly between a block's marker lines.
Interior(text, m) ==
    SubSeq(LinesOf(text), LineAt(text, m.start) + 1, LineAt(text, m.stop - 1) - 1)

\* The blocks lie one after the other in the text.
InTextOrder(text, ms) ==
    \A k \in 1..(Len(ms) - 1) :
        LineAt(text, ms[k].stop - 1) < LineAt(text, ms[k + 1].start)

\* The lines without a blank last one.
WithoutBlankLast(lines) ==
    IF lines # <<>> /\ lines[Len(lines)] = <<>>
    THEN SubSeq(lines, 1, Len(lines) - 1) ELSE lines

\* Block after block, the interior lines (all of them when verbatim) and
\* one blank line.
RECURSIVE Stretches(_, _, _)
Stretches(text, ms, verbatim) ==
    IF ms = <<>> THEN <<>>
    ELSE (IF verbatim THEN Interior(text, Head(ms))
          ELSE WithoutBlankLast(Interior(text, Head(ms))))
         \o << <<>> >> \o Stretches(text, Tail(ms), verbatim)

\* C8, as claimed: the output is, for each of the N blocks and in the text's
\* order, the block's interior lines unchanged followed by one blank line.
C8_BlocksVerbatim ==
    pc = "done" =>
        LET ms == FindIter(inputstring)
        IN  /\ InTextOrder(inputstring, ms)
            /\ rstlines = Stretches(inputstring, ms, TRUE)

\* C8, amended: the same, except that a block whose last interior line is
\* blank contributes its interior lines without that one line.
C8_BlocksButBlankLast ==
    pc = "done" =>
        LET ms == FindIter(inputstring)
        IN  /\ InTextOrder(inputstring, ms)
            /\ rstlines = Stretches(inputstring, ms, FALSE)

\* C8's case: a text with two blocks was parsed, the first with one blank
\* interior line, the second with one text line.
C8_Witness ==
    /\ pc = "done"
    /\ Len(FindIter(inputstring)) = 2
    /\ Interior(inputstring, FindIter(inputstring)[1]) = << <<>> >>
    /\ Interior(inputstring, FindIter(inputstring)[2]) = << <<"x">> >>
    /\ rstlines = << <<>>, <<"x">>, <<>> >>

\* C9: the host's parser is called exactly once when the text holds at least
\* one block (an empty one included), with the joined lines, and is not called
\* and the output is empty when it holds none.
C9_ParserIffBlocks ==
    /\ pc # "done" => parsed = <<>>
    /\ pc = "done" =>
          IF Len(FindIter(inputstring)) = 0
          THEN rstlines = <<>> /\ parsed = <<>>
          ELSE /\ Len(parsed) = 1
               /\ parsed[1] = Join(NL, rstlines) \o <<NL>>

\* C9's case: the only block of the parsed text has an empty interior, and
\* the parser was called once.
C9_Witness ==
    /\ pc = "done"
    /\ Findall(inputstring) = << <<>> >>
    /\ Len(parsed) = 1

\* ... and a text with marker lines but no block was parsed without a call.
C9_WitnessNoBlock ==
    /\ pc = "done"
    /\ \E p \in 1..Len(inputstring) : OpensAt(inputstring, p)
    /\ FindIter(inputstring) = <<>>
    /\ parsed = <<>>

\* The marker lines: a line that is the opening marker's text and nothing
\* else, and a line that is the closing marker's text and nothing else.
OpeningLine == <<"O">>
ClosingLine == <<"C">>

\* The lines of the text after line a that are closing marker lines.
ClosingLinesAfter(text, a) ==
    {j \in (a + 1)..Len(LinesOf(text)) : LinesOf(text)[j] = ClosingLine}

\* C11: every extracted block begins on an opening marker line and ends on
\* the first closing marker line after it; its content is exactly the lines
\* strictly between the two, none of which is a closing marker line; and an
\* opening marker line with no closing marker line after it lies in no block.
C11_FirstClosingLine ==
    pc = "done" =>
        LET ms    == FindIter(inputstring)
            lines == LinesOf(inputstring)
        IN  /\ \A k \in 1..Len(ms) :
                  LET a == LineAt(inputstring, ms[k].start)
                      b == LineAt(inputstring, ms[k].stop - 1)
                  IN  /\ lines[a] = OpeningLine
                      /\ ClosingLinesAfter(inputstring, a) # {}
                      /\ b = Min(ClosingLinesAfter(inputstring, a))
                      /\ Findall(inputstring)[k] = Join(NL, SubSeq(lines, a + 1, b - 1))
                      /\ \A j \in (a + 1)..(b - 1) : lines[j] # ClosingLine
            /\ \A a \in 1..Len(lines) :
                  (lines[a] = OpeningLine /\ ClosingLinesAfter(inputstring, a) = {})
                      => \A k \in 1..Len(ms) : LineAt(inputstring, ms[k].stop - 1) < a

-----------------------------------------------------------------------------
(* The parallel read *)

Occurrences(seq, x) == Cardinality({i \in 1..Len(seq) : seq[i] = x})

\* C10: once the host has merged both workers' results, the registry holds
\* every object either worker registered, each as often as it was registered.
C10_MergeKeepsAll ==
    (\A w \in Workers : mergeError[w] # "unmerged") =>
        /\ \A w \in Workers : \A i \in 1..Len(workerObjects[w]) :
              Occurrences(objects, workerObjects[w][i])
                = Occurrences(workerObjects["w1"], workerObjects[w][i])
                  + Occurrences(workerObjects["w2"], workerObjects[w][i])
        /\ Len(objects) = Len(workerObjects["w1"]) + Len(workerObjects["w2"])


====
